---------------------------- MODULE Spec2Model ----------------------------
(***************************************************************************)
(* Model of the background task pipeline of mysmartnotes                   *)
(* (src/app/utils/tasks.py): the in-memory task table tasks_tracking, the  *)
(* ThreadPoolExecutor task_executor (a FIFO work queue drained by at most  *)
(* max_workers threads) and TaskManager's operations.                      *)
(*                                                                         *)
(* _execute_task runs on a pool thread and writes the shared table one     *)
(* dictionary item at a time with no lock, so every write is its own step  *)
(* and other threads (submit_task, update_task_progress, get_task_status,  *)
(* other workers) interleave between the writes.                           *)
(***************************************************************************)
EXTENDS Integers, Sequences, FiniteSets, Bags, TLC

\* ---------------------------------------------------------------- bounds
\* Total number of submit_task calls in a run of the full model.
MaxSubmits == 3
\* Total number of submit_task calls in a run of the pool-saturation model.
MaxPoolSubmits == 6
\* Largest reading of the clock datetime.utcnow().
MaxTime == 2

\* Submissions to the pool under fair scheduling.
MaxLiveSubmits == 2

\* ------------------------------------------------------------ constants
\* ThreadPoolExecutor(max_workers=5)
max_workers == 5

\* Python's None.
None == "<None>"

\* Task ids the callers use.
TaskIds == {"t2", "t3"}

\* Values a work function returns.
Values == {"x"}

\* str(e) of the exceptions a work function raises; Exception() has str "".
Messages == {"boom", ""}

\* The behaviours of a submitted task_func(*args, **kwargs): it returns a
\* value, raises an Exception whose str() is val, or raises a BaseException
\* that is no Exception (SystemExit, KeyboardInterrupt).
Funcs ==
    [kind : {"return"}, val : Values]
        \cup [kind : {"raise"}, val : Messages]
        \cup [kind : {"base"}, val : {"exit"}]

\* Arguments callers pass to update_task_progress: below and above 0..100.
ProgressArgs == {-5, 150}

\* The submissions of the pool-saturation model: works under id "t2" raise,
\* works under id "t3" return.
PoolWork ==
    [t \in TaskIds |->
        IF t = "t2" THEN [kind |-> "raise", val |-> "boom"]
        ELSE [kind |-> "return", val |-> "x"]]

VARIABLES
    tasks_tracking,  \* the dict tasks_tracking: task id -> record
    work_queue,      \* task_executor's queue of submitted work items
    workers,         \* bag of the _execute_task calls running on pool threads
    now,             \* the clock read by datetime.utcnow()
    submitted,       \* history: submit_task calls per task id
    calls,           \* history: invocations of the work function per task id
    outcomes         \* history: per task id, the works whose execution has ended

\* The ranking functions of EmbeddingsManager (src/app/processing/search.py),
\* applied to inputs drawn in SearchInit.
VARIABLES
    query_embedding, \* self.embed_text(query)
    documents,       \* the corpus handed to search / batch_search
    top_k,           \* the argument top_k
    chunk_size,      \* the argument chunk_size of batch_search
    search_result,   \* what search returned
    batch_result,    \* what batch_search returned
    search_ran       \* the functions applied so far

searchVars ==
    <<query_embedding, documents, top_k, chunk_size, search_result,
      batch_result, search_ran>>

\* OCRProcessor.chunk_text (src/app/processing/ocr.py), applied to inputs
\* drawn in ChunkInit.
VARIABLES
    text,           \* the argument text, a sequence of characters
    ct_chunk_size,  \* the argument chunk_size of chunk_text
    overlap,        \* the argument overlap
    chunk_outcome   \* how chunk_text ended, NotCalled before

chunkVars == <<text, ct_chunk_size, overlap, chunk_outcome>>

\* The two cosine similarities (EmbeddingsManager.cosine_similarity of
\* src/app/processing/search.py, similarity of
\* src/app/processing/embeddings.py), applied to vectors drawn in SimInit.
VARIABLES
    sim_vec1,            \* the first vector
    sim_vec2,            \* the second vector
    cosine_outcome,  \* how cosine_similarity ended
    sim_outcome      \* how similarity ended

simVars == <<sim_vec1, sim_vec2, cosine_outcome, sim_outcome>>

\* The embedding model handles: the lazily loaded global of
\* src/app/processing/embeddings.py and the EmbeddingsManager objects of
\* src/app/processing/search.py, used by concurrent callers.
VARIABLES
    embedding_model, \* the global embedding_model, NoModel for None
    loadable,        \* SentenceTransformer(...) succeeds in this process
    loads,           \* the models loaded so far
    callers,         \* per thread: the call it is in and how its last ended
    ncalls           \* the calls made so far

modelVars == <<embedding_model, loadable, loads, callers, ncalls>>

\* POST /search/semantic (src/app/routers/search.py), one request.
VARIABLES
    lectures,       \* the lectures the query of lines 55-63 finds
    request_query,  \* the embedding of request.query
    request_top_k,  \* request.top_k
    response,       \* how semantic_search ended
    engine_called,  \* embeddings_mgr.search has been called
    ranked          \* what embeddings_mgr.search ranked, places attached

semanticVars ==
    <<lectures, request_query, request_top_k, response, engine_called, ranked>>

\* A caller of TaskManager.update_task_progress that looks at how its call
\* ended.
VARIABLES
    update_outcome  \* how the last update_task_progress call ended

updateVars == <<update_outcome>>

\* ConnectionManager (src/app/utils/websocket.py): the coroutines run on one
\* event loop and give way to each other at their awaits only.
VARIABLES
    active_connections, \* self.active_connections: user id -> set of sockets
    broadcast           \* the broadcast_to_user coroutine and how it ended

wsVars == <<active_connections, broadcast>>

\* POST /study-sessions (src/app/routers/study_sessions.py), one request.
VARIABLES
    session,        \* the request body, a StudySessionCreate
    lecture_found,  \* the lecture of the request belongs to the user
    study_outcome   \* how create_study_session ended

studyVars == <<session, lecture_found, study_outcome>>

\* The task pipeline's own variables.
taskVars == <<tasks_tracking, work_queue, workers, now, submitted, calls, outcomes>>

\* Everything the task pipeline does not touch.
others ==
    <<searchVars, chunkVars, simVars, modelVars, semanticVars, updateVars, wsVars,
      studyVars>>

vars == <<taskVars, others>>

\* ------------------------------------------------------------- helpers
Min(a, b) == IF a < b THEN a ELSE b
Max(a, b) == IF a > b THEN a ELSE b

\* tasks_tracking[task_id] = { ... } of submit_task.
NewRecord(created, updated) ==
    [status |-> "pending",
     created_at |-> created,
     updated_at |-> updated,
     result |-> None,
     error |-> None,
     progress |-> 0]

\* tasks_tracking[task_id] = record
SetItem(task_id, record) ==
    [t \in DOMAIN tasks_tracking \cup {task_id} |->
        IF t = task_id THEN record ELSE tasks_tracking[t]]

\* tasks_tracking[task_id]["status"] = value
SetStatus(task_id, value) ==
    [tasks_tracking EXCEPT ![task_id].status = value]

\* tasks_tracking[task_id]["result"] = value
SetResult(task_id, value) ==
    [tasks_tracking EXCEPT ![task_id].result = value]

\* Mutant of SetError: the message is recorded on every record of the table.
SetError_EveryRecord(task_id, value) ==
    [t \in DOMAIN tasks_tracking |-> [tasks_tracking[t] EXCEPT !.error = value]]

\* tasks_tracking[task_id]["error"] = value
SetError(task_id, value) ==
    [tasks_tracking EXCEPT ![task_id].error = value]

\* tasks_tracking[task_id]["progress"] = value
SetProgress(task_id, value) ==
    [tasks_tracking EXCEPT ![task_id].progress = value]

\* Mutant of Clamp: the argument is stored as it is.
Clamp_AsGiven(progress) == progress

\* min(100, max(0, progress))
Clamp(progress) == Min(100, Max(0, progress))

\* A pool thread's _execute_task call at program point pc.
Exec(task_id, task_func, pc) ==
    [task_id |-> task_id, task_func |-> task_func, pc |-> pc]

Running == BagToSet(workers)

\* The worker's call moves from e to the program point pc.
Goto(e, pc) == (workers (-) SetToBag({e})) (+) SetToBag({Exec(e.task_id, e.task_func, pc)})

\* The worker's call returns and the thread is free again.
Leave(e) == workers (-) SetToBag({e})

\* The work of e has ended.
Ended(e) == [outcomes EXCEPT ![e.task_id] = @ \cup {e.task_func}]

TotalSubmitted == submitted["t2"] + submitted["t3"]

\* ===================================================================
\* EmbeddingsManager: cosine_similarity, search, batch_search
\* (src/app/processing/search.py)
\* ===================================================================

\* Largest corpus handed to search.
MaxDocs == 4
\* Largest batch size handed to batch_search.
MaxBatch == 3

\* Documents of a corpus, sequences of characters: "a", "b" and "a b".
Docs == {<<"a">>, <<"b">>, <<"a", " ", "b">>}

\* Embedding vectors: two coordinates, the zero vector included.  They lie
\* on the axes, so that norms and cosines are whole numbers and are computed
\* exactly.
Vecs == {<<0, 0>>, <<1, 0>>, <<2, 0>>, <<0, 1>>, <<0, 2>>, <<-1, 0>>}

\* self.model.encode(text): the external embedding model, a fixed function
\* of the text.  "a" and "b" point the same way, so that two different
\* documents tie on every query.
Encode(doc) ==
    CASE doc = <<"a">> -> <<1, 0>>
      [] doc = <<"b">> -> <<2, 0>>
      [] OTHER -> <<0, 1>>

\* A float: a number or NaN.
Float(v) == [nan |-> FALSE, val |-> v]
NaN == [nan |-> TRUE, val |-> 0]

\* np.dot(vec1, vec2)
Dot(vec1, vec2) == vec1[1] * vec2[1] + vec1[2] * vec2[2]

\* np.linalg.norm(vec): the square root of the sum of squares, exact for the
\* vectors of Vecs.
Norm(vec) ==
    LET sq == Dot(vec, vec) IN CHOOSE n \in 0 .. sq : n * n = sq

\* float / float in numpy: 0/0 is nan (no exception); the quotients taken
\* here are whole numbers.
FloatDiv(num, den) ==
    IF den = 0 THEN NaN ELSE Float(num \div den)

\* EmbeddingsManager.cosine_similarity
cosine_similarity(vec1, vec2) ==
    LET dot_product == Dot(vec1, vec2)
        norm_vec1 == Norm(vec1)
        norm_vec2 == Norm(vec2)
    IN  IF norm_vec1 = 0 \/ norm_vec2 = 0
        THEN Float(0)
        ELSE FloatDiv(dot_product, norm_vec1 * norm_vec2)

\* seq[:k] of Python: a negative k counts from the end.
SliceTo(seq, k) ==
    IF k >= 0
    THEN SubSeq(seq, 1, Min(k, Len(seq)))
    ELSE SubSeq(seq, 1, Max(0, Len(seq) + k))

\* A slice bound of Python brought into 0 .. n: a negative bound counts from
\* the end.
SliceBound(x, n) == IF x < 0 THEN Max(0, n + x) ELSE Min(x, n)

\* seq[i:j] of Python (positions counted from 0).
Slice(seq, i, j) ==
    SubSeq(seq, SliceBound(i, Len(seq)) + 1, SliceBound(j, Len(seq)))

\* x is put behind every element whose score is at least its own.
RECURSIVE InsertDesc(_, _)
InsertDesc(sorted, x) ==
    IF sorted = <<>> THEN <<x>>
    ELSE IF Head(sorted).score >= x.score
         THEN <<Head(sorted)>> \o InsertDesc(Tail(sorted), x)
         ELSE <<x>> \o sorted

\* x is put in front of every element whose score is at most its own.
RECURSIVE InsertDescUnstable(_, _)
InsertDescUnstable(sorted, x) ==
    IF sorted = <<>> THEN <<x>>
    ELSE IF Head(sorted).score > x.score
         THEN <<Head(sorted)>> \o InsertDescUnstable(Tail(sorted), x)
         ELSE <<x>> \o sorted

\* Mutant of SortDesc: descending by score, but equal scores come out in the
\* reverse of the order they had.
RECURSIVE SortDesc_Unstable(_)
SortDesc_Unstable(seq) ==
    IF seq = <<>> THEN <<>>
    ELSE InsertDescUnstable(SortDesc_Unstable(SubSeq(seq, 1, Len(seq) - 1)), seq[Len(seq)])

\* list.sort(key=lambda x: x[1], reverse=True): descending by score and
\* stable, equal scores keep the order they had.
RECURSIVE SortDesc(_)
SortDesc(seq) ==
    IF seq = <<>> THEN <<>>
    ELSE InsertDesc(SortDesc(SubSeq(seq, 1, Len(seq) - 1)), seq[Len(seq)])

\* A corpus with the place of every document in the whole corpus attached
\* (the place is bookkeeping: the code's tuples are (doc, score)).
Tagged(docs, offset) ==
    [i \in 1 .. Len(docs) |-> [doc |-> docs[i], pos |-> offset + i]]

\* Lines 79-82 of search: the (doc, similarity) tuples in corpus order.
Similarities(query_emb, tagged) ==
    [i \in 1 .. Len(tagged) |->
        [doc |-> tagged[i].doc,
         score |-> cosine_similarity(query_emb, Encode(tagged[i].doc)).val,
         pos |-> tagged[i].pos]]

\* EmbeddingsManager.search on a corpus with places attached.
search(query_emb, tagged, k) ==
    SliceTo(SortDesc(Similarities(query_emb, tagged)), k)

\* Mutant of AllResults: the batches are ranked but only the first batch is
\* kept (all_results is overwritten instead of extended).
RECURSIVE AllResults_FirstBatchOnly(_, _, _, _)
AllResults_FirstBatchOnly(query_emb, tagged, size, i) ==
    IF i >= Len(tagged) THEN <<>>
    ELSE LET batch == Slice(tagged, i, i + size)
         IN  search(query_emb, batch, Len(batch))

\* Lines 104-109 of batch_search: for i in range(0, len(documents),
\* chunk_size) the batch documents[i:i + chunk_size] is ranked whole and
\* appended to all_results.
RECURSIVE AllResults(_, _, _, _)
AllResults(query_emb, tagged, size, i) ==
    IF i >= Len(tagged) THEN <<>>
    ELSE LET batch == Slice(tagged, i, i + size)
         IN  search(query_emb, batch, Len(batch))
                 \o AllResults(query_emb, tagged, size, i + size)

\* EmbeddingsManager.batch_search
batch_search(query_emb, tagged, size, k) ==
    SliceTo(SortDesc(AllResults(query_emb, tagged, size, 0)), k)

\* The (doc, score) tuples the code returns.
Tuples(entries) ==
    [i \in 1 .. Len(entries) |-> <<entries[i].doc, entries[i].score>>]

\* All sequences over S of length at most n.
SeqsUpTo(S, n) == UNION {[1 .. m -> S] : m \in 0 .. n}

\* No ranking is under way.
SearchIdle ==
    /\ query_embedding = <<0, 0>>
    /\ documents = <<>>
    /\ top_k = 0
    /\ chunk_size = 1
    /\ search_result = <<>>
    /\ batch_result = <<>>
    /\ search_ran = {}

\* The inputs of a ranking.
SearchInit ==
    /\ query_embedding \in Vecs
    /\ documents \in SeqsUpTo(Docs, MaxDocs)
    /\ top_k \in -1 .. MaxDocs + 1
    /\ chunk_size \in 1 .. MaxBatch
    /\ search_result = <<>>
    /\ batch_result = <<>>
    /\ search_ran = {}

\* search(query, documents, top_k) is called.
CallSearch ==
    /\ "search" \notin search_ran
    /\ search_result' = search(query_embedding, Tagged(documents, 0), top_k)
    /\ search_ran' = search_ran \cup {"search"}
    /\ UNCHANGED <<query_embedding, documents, top_k, chunk_size, batch_result>>

\* batch_search(query, documents, chunk_size, top_k) is called.
CallBatchSearch ==
    /\ "batch_search" \notin search_ran
    /\ batch_result' =
          batch_search(query_embedding, Tagged(documents, 0), chunk_size, top_k)
    /\ search_ran' = search_ran \cup {"batch_search"}
    /\ UNCHANGED <<query_embedding, documents, top_k, chunk_size, search_result>>

\* ===================================================================
\* OCRProcessor.chunk_text (src/app/processing/ocr.py)
\* ===================================================================

\* Longest text handed to chunk_text, in characters.
MaxText == 7

\* The characters of a text: two letters and the blank.
Chars == {"a", "b", " "}

\* The arguments chunk_size and overlap tried; the signature takes any int.
ChunkSizes == -1 .. 3
Overlaps == -2 .. 4

\* How a call ended: it returned val, or raised the exception val.
Returned(v) == [kind |-> "return", val |-> v]
Raised(e) == [kind |-> "raise", val |-> e]
\* No call has ended.
NotCalled == [kind |-> "none", val |-> None]

\* str.split(): the maximal runs of non-blank characters, read from
\* character i on; cur is the run being read, acc the runs read.
RECURSIVE SplitFrom(_, _, _, _)
SplitFrom(txt, i, cur, acc) ==
    LET closed == IF cur = <<>> THEN acc ELSE Append(acc, cur)
    IN  IF i > Len(txt) THEN closed
        ELSE IF txt[i] = " "
             THEN SplitFrom(txt, i + 1, <<>>, closed)
             ELSE SplitFrom(txt, i + 1, Append(cur, txt[i]), acc)

\* text.split()
Split(txt) == SplitFrom(txt, 1, <<>>, <<>>)

\* " ".join(ws)
RECURSIVE Join(_)
Join(ws) ==
    IF ws = <<>> THEN <<>>
    ELSE IF Len(ws) = 1 THEN ws[1]
         ELSE ws[1] \o <<" ">> \o Join(Tail(ws))

\* chunk.strip() is a non-empty string.
StripNonEmpty(chunk) == \E i \in 1 .. Len(chunk) : chunk[i] # " "

\* Mutant of Range: the range advances by one more than the step.
Range_WiderStep(stop, step) ==
    IF step < 0 THEN <<>>
    ELSE [k \in 1 .. ((stop + step) \div (step + 1)) |-> (k - 1) * (step + 1)]

\* list(range(0, stop, step)) for stop >= 0 and step # 0; a negative step
\* gives the empty range.
Range(stop, step) ==
    IF step < 0 THEN <<>>
    ELSE [k \in 1 .. ((stop + step - 1) \div step) |-> (k - 1) * step]

\* Mutant of chunk_text: a window of fewer than chunk_size words is dropped.
chunk_text_FullWindowsOnly(txt, size, ovl) ==
    LET words == Split(txt)
        step == size - ovl
        starts == IF step = 0 THEN <<>> ELSE Range(Len(words), step)
        windows == [k \in 1 .. Len(starts) |->
                       Slice(words, starts[k], starts[k] + size)]
    IN  IF step = 0
        THEN Raised("ValueError")
        ELSE Returned([k \in 1 .. Len(SelectSeq(windows, LAMBDA w : Len(w) = size)) |->
                          Join(SelectSeq(windows, LAMBDA w : Len(w) = size)[k])])

\* OCRProcessor.chunk_text: range() raises ValueError for a step of 0.
chunk_text(txt, size, ovl) ==
    LET words == Split(txt)
        step == size - ovl
        starts == IF step = 0 THEN <<>> ELSE Range(Len(words), step)
        joined == [k \in 1 .. Len(starts) |->
                      Join(Slice(words, starts[k], starts[k] + size))]
    IN  IF step = 0
        THEN Raised("ValueError")
        ELSE Returned(SelectSeq(joined, StripNonEmpty))

\* chunk_text is not in use.
ChunkIdle ==
    /\ text = <<>>
    /\ ct_chunk_size = 1
    /\ overlap = 0
    /\ chunk_outcome = NotCalled

\* The arguments of a call of chunk_text.
ChunkInit ==
    /\ text \in SeqsUpTo(Chars, MaxText)
    /\ ct_chunk_size \in ChunkSizes
    /\ overlap \in Overlaps
    /\ chunk_outcome = NotCalled

\* chunk_text(text, chunk_size, overlap) is called.
CallChunkText ==
    /\ chunk_outcome.kind = "none"
    /\ chunk_outcome' = chunk_text(text, ct_chunk_size, overlap)
    /\ UNCHANGED <<text, ct_chunk_size, overlap>>

\* ===================================================================
\* similarity (src/app/processing/embeddings.py) next to
\* EmbeddingsManager.cosine_similarity
\* ===================================================================

\* similarity: the quotient is taken without a look at the norms.  numpy
\* divides 0.0 by 0.0 to nan with a warning, no exception is raised, so the
\* except branch (return 0.0) is not entered.
similarity(embedding1, embedding2) ==
    FloatDiv(Dot(embedding1, embedding2), Norm(embedding1) * Norm(embedding2))

\* Neither function is in use.
SimIdle ==
    /\ sim_vec1 = <<0, 0>>
    /\ sim_vec2 = <<0, 0>>
    /\ cosine_outcome = NotCalled
    /\ sim_outcome = NotCalled

\* The two vectors compared.
SimInit ==
    /\ sim_vec1 \in Vecs
    /\ sim_vec2 \in Vecs
    /\ cosine_outcome = NotCalled
    /\ sim_outcome = NotCalled

\* EmbeddingsManager.cosine_similarity(vec1, vec2) is called.
CallCosineSimilarity ==
    /\ cosine_outcome.kind = "none"
    /\ cosine_outcome' = Returned(cosine_similarity(sim_vec1, sim_vec2))
    /\ UNCHANGED <<sim_vec1, sim_vec2, sim_outcome>>

\* similarity(embedding1, embedding2) is called.
CallSimilarity ==
    /\ sim_outcome.kind = "none"
    /\ sim_outcome' = Returned(similarity(sim_vec1, sim_vec2))
    /\ UNCHANGED <<sim_vec1, sim_vec2, cosine_outcome>>

\* ===================================================================
\* get_embeddings_model, embed_text, embed_texts
\* (src/app/processing/embeddings.py) and EmbeddingsManager.__init__,
\* embed_text, embed_texts (src/app/processing/search.py)
\* ===================================================================

\* Threads that use the embedding model.
MaxThreads == 2
\* Calls made in all.
MaxCalls == 3

Threads == 1 .. MaxThreads

\* embedding_model = None; a loaded model is the number of its load.
NoModel == 0

\* The functions of embeddings.py and the methods reached through a fresh
\* EmbeddingsManager(), as get_embeddings_manager makes one per request.
ModuleOps == {"get_embeddings_model", "embed_text", "embed_texts"}
ManagerOps == {"EmbeddingsManager.embed_text", "EmbeddingsManager.embed_texts"}

\* The arguments of the embed calls.
EmbedArg == <<"a">>
EmbedArgs == <<<<"a">>, <<"a", " ", "b">>>>

\* model.encode(text) and model.encode(texts)
EncodeAll(texts) == [i \in 1 .. Len(texts) |-> Encode(texts[i])]

\* A thread outside any call.
IdleCaller == [op |-> None, pc |-> "idle", model |-> NoModel, outcome |-> NotCalled]

\* No thread has used the embedding model.
ModelIdle ==
    /\ embedding_model = NoModel
    /\ loadable = TRUE
    /\ loads = 0
    /\ callers = [t \in Threads |-> IdleCaller]
    /\ ncalls = 0

\* The process after import: the model can be loaded or it cannot.
ModelInit ==
    /\ embedding_model = NoModel
    /\ loadable \in BOOLEAN
    /\ loads = 0
    /\ callers = [t \in Threads |-> IdleCaller]
    /\ ncalls = 0

\* Thread t ends its call with outcome o.
EndCall(t, o) ==
    callers' = [callers EXCEPT ![t].pc = "idle", ![t].outcome = o]

\* Thread t calls op.
CallOp(t, op) ==
    /\ callers[t].pc = "idle"
    /\ ncalls < MaxCalls
    /\ ncalls' = ncalls + 1
    /\ callers' = [callers EXCEPT ![t] =
          [op |-> op,
           pc |-> IF op \in ModuleOps THEN "L19" ELSE "__init__",
           model |-> NoModel,
           outcome |-> NotCalled]]
    /\ UNCHANGED <<embedding_model, loadable, loads>>

\* get_embeddings_model, line 19: if embedding_model is None.
TestModel(t) ==
    /\ callers[t].pc = "L19"
    /\ callers' = [callers EXCEPT ![t].pc =
          IF embedding_model = NoModel THEN "L21" ELSE "L25"]
    /\ UNCHANGED <<embedding_model, loadable, loads, ncalls>>

\* get_embeddings_model, lines 20-24: the model is loaded and bound to the
\* global; a failure is logged and the global stays None.
LoadModel(t) ==
    /\ callers[t].pc = "L21"
    /\ IF loadable
       THEN /\ loads' = loads + 1
            /\ embedding_model' = loads + 1
       ELSE UNCHANGED <<embedding_model, loads>>
    /\ callers' = [callers EXCEPT ![t].pc = "L25"]
    /\ UNCHANGED <<loadable, ncalls>>

\* get_embeddings_model, line 25: return embedding_model.  The caller
\* embed_text / embed_texts keeps it as model.
ReturnModel(t) ==
    /\ callers[t].pc = "L25"
    /\ IF callers[t].op = "get_embeddings_model"
       THEN EndCall(t, Returned(embedding_model))
       ELSE callers' = [callers EXCEPT ![t].pc = "embed",
                                       ![t].model = embedding_model]
    /\ UNCHANGED <<embedding_model, loadable, loads, ncalls>>

\* embed_text, lines 31-36, and embed_texts, lines 45-50, of embeddings.py:
\* [] when there is no model.
EmbedWithGlobal(t) ==
    /\ callers[t].pc = "embed"
    /\ callers[t].op \in ModuleOps
    /\ EndCall(t,
          IF callers[t].model = NoModel THEN Returned(<<>>)
          ELSE IF callers[t].op = "embed_text" THEN Returned(Encode(EmbedArg))
          ELSE Returned(EncodeAll(EmbedArgs)))
    /\ UNCHANGED <<embedding_model, loadable, loads, ncalls>>

\* get_embeddings_manager: EmbeddingsManager() loads a model of its own;
\* __init__ logs a failure and raises it again.
NewManager(t) ==
    /\ callers[t].pc = "__init__"
    /\ IF loadable
       THEN /\ loads' = loads + 1
            /\ callers' = [callers EXCEPT ![t].pc = "embed",
                                          ![t].model = loads + 1]
       ELSE /\ EndCall(t, Raised("Exception"))
            /\ UNCHANGED loads
    /\ UNCHANGED <<embedding_model, loadable, ncalls>>

\* EmbeddingsManager.embed_text, embed_texts: self.model.encode.
EmbedWithManager(t) ==
    /\ callers[t].pc = "embed"
    /\ callers[t].op \in ManagerOps
    /\ EndCall(t,
          IF callers[t].op = "EmbeddingsManager.embed_text"
          THEN Returned(Encode(EmbedArg))
          ELSE Returned(EncodeAll(EmbedArgs)))
    /\ UNCHANGED <<embedding_model, loadable, loads, ncalls>>

\* ===================================================================
\* semantic_search (src/app/routers/search.py)
\* ===================================================================

\* Most lectures a user has.
MaxLectures == 3

\* The defaults of chunk_text, which semantic_search calls with the text
\* alone.
DefaultChunkSize == 500
DefaultOverlap == 50

\* Lecture.extracted_text: none (None or ""), blank, "a", "b", "a b".
LectureTexts == {<<>>, <<" ">>, <<"a">>, <<"b">>, <<"a", " ", "b">>}

\* The rows of the lectures table with the texts ts; the id is the key.
Rows(ts) == [i \in 1 .. Len(ts) |-> [id |-> i, extracted_text |-> ts[i]]]

\* Lines 75-89: the chunks of every lecture that has text, each with the
\* lecture it comes from.
RECURSIVE ChunkMetadata(_)
ChunkMetadata(lects) ==
    IF lects = <<>> THEN <<>>
    ELSE LET lecture == Head(lects)
             chunks == chunk_text(lecture.extracted_text,
                                  DefaultChunkSize, DefaultOverlap).val
             tagged == [k \in 1 .. Len(chunks) |->
                           [lecture_id |-> lecture.id, content |-> chunks[k]]]
         IN  (IF lecture.extracted_text = <<>> THEN <<>> ELSE tagged)
                 \o ChunkMetadata(Tail(lects))

\* Lines 109-117: the lecture of the first chunk_metadata entry whose
\* content equals the chunk.
LectureIdOf(chunk_metadata, chunk) ==
    LET hits == {i \in 1 .. Len(chunk_metadata) :
                    chunk_metadata[i].content = chunk}
    IN  chunk_metadata[CHOOSE i \in hits : \A j \in hits : i <= j].lecture_id

\* raise HTTPException(status_code, detail)
HTTPException(status_code, detail) ==
    Raised([status_code |-> status_code, detail |-> detail])

\* semantic_search for the lectures found; available says whether
\* get_embeddings_manager() gives a manager or raises.
semantic_search(lects, query_emb, k, available) ==
    LET chunk_metadata == ChunkMetadata(lects)
        all_chunks == [i \in 1 .. Len(chunk_metadata) |->
                          chunk_metadata[i].content]
        results == search(query_emb, Tagged(all_chunks, 0), k)
        failed(e) == [response |-> e, engine_called |-> FALSE, ranked |-> <<>>]
    IN  IF lects = <<>>
        THEN failed(HTTPException(404, "No lectures found to search"))
        ELSE IF all_chunks = <<>>
        THEN failed(HTTPException(400,
                 "No text content available in lectures for search"))
        ELSE IF ~available
        THEN failed(HTTPException(500, "Search error"))
        ELSE [response |-> Returned(
                 [results |-> [i \in 1 .. Len(results) |->
                      [content |-> results[i].doc,
                       score |-> results[i].score,
                       lecture_id |-> LectureIdOf(chunk_metadata, results[i].doc)]],
                  total_results |-> Len(results)]),
              engine_called |-> TRUE,
              ranked |-> results]

\* No request has been made.
SemanticIdle ==
    /\ lectures = <<>>
    /\ request_query = <<0, 0>>
    /\ request_top_k = 0
    /\ response = NotCalled
    /\ engine_called = FALSE
    /\ ranked = <<>>

\* The lectures of the user and the request.
SemanticInit ==
    /\ \E ts \in SeqsUpTo(LectureTexts, MaxLectures) : lectures = Rows(ts)
    /\ request_query \in Vecs
    /\ request_top_k \in -1 .. MaxLectures + 1
    /\ response = NotCalled
    /\ engine_called = FALSE
    /\ ranked = <<>>

\* The request is served.
SemanticSearch(available) ==
    /\ response.kind = "none"
    /\ LET out == semantic_search(lectures, request_query, request_top_k,
                                  available)
       IN  /\ response' = out.response
           /\ engine_called' = out.engine_called
           /\ ranked' = out.ranked
    /\ UNCHANGED <<lectures, request_query, request_top_k>>

\* ===================================================================
\* ConnectionManager (src/app/utils/websocket.py)
\* ===================================================================

Users == {1, 2}
Sockets == {"w1", "w2", "w3"}

\* No broadcast_to_user call is under way and none has ended.
NoBroadcast ==
    [pc |-> "idle",        \* "send": suspended in await connection.send_json
     user_id |-> 0,
     connection |-> None,  \* the loop variable
     used |-> 0,           \* the size of the set when the for loop began
     changed |-> FALSE,    \* the set was changed while the loop is suspended
     detached |-> FALSE,   \* the set is no longer in active_connections
     visited |-> {},       \* the connections the loop has sent to
     disconnected |-> {},  \* the local set disconnected
     whole |-> {},         \* registered ever since the call began
     removed |-> {},       \* what lines 46-47 removed
     stale |-> {},         \* failed and still registered when the call ended
     outcome |-> "none"]   \* "return" or the exception raised

\* ConnectionManager.__init__
WsIdle ==
    /\ active_connections = <<>>
    /\ broadcast = NoBroadcast

\* The set object the for loop of broadcast_to_user iterates over: the one
\* that was in active_connections when the loop began.  disconnect deletes
\* an entry only when its set is empty.
Iterated ==
    IF broadcast.detached THEN {} ELSE active_connections[broadcast.user_id]

\* active_connections with the set of user_id replaced.
WithSet(user_id, sockets) ==
    [u \in DOMAIN active_connections \cup {user_id} |->
        IF u = user_id THEN sockets ELSE active_connections[u]]

\* del self.active_connections[user_id]
Without(user_id) ==
    [u \in DOMAIN active_connections \ {user_id} |-> active_connections[u]]

\* The suspended broadcast iterates over the set of user_id.
Iterating(user_id) ==
    /\ broadcast.pc = "send"
    /\ broadcast.user_id = user_id
    /\ ~broadcast.detached

\* ConnectionManager.connect, after websocket.accept() has returned.
connect(user_id, websocket) ==
    LET old == IF user_id \in DOMAIN active_connections
               THEN active_connections[user_id] ELSE {}
    IN  /\ active_connections' = WithSet(user_id, old \cup {websocket})
        /\ broadcast' =
              IF Iterating(user_id) /\ websocket \notin old
              THEN [broadcast EXCEPT !.changed = TRUE]
              ELSE broadcast

\* ConnectionManager.disconnect
disconnect(user_id, websocket) ==
    IF user_id \notin DOMAIN active_connections
    THEN UNCHANGED <<active_connections, broadcast>>
    ELSE LET old == active_connections[user_id]
             left == old \ {websocket}
         IN  /\ active_connections' =
                   IF left = {} THEN Without(user_id)
                   ELSE WithSet(user_id, left)
             /\ broadcast' =
                   IF Iterating(user_id)
                   THEN [broadcast EXCEPT
                            !.changed = @ \/ websocket \in old,
                            !.detached = (left = {}),
                            !.whole = @ \ {websocket}]
                   ELSE broadcast

\* Lines 46-47 and the return: the connections whose send failed are
\* discarded from the set active_connections holds for the user now.
CleanUp(b) ==
    IF b.disconnected = {}
    THEN /\ broadcast' = [b EXCEPT !.pc = "idle", !.outcome = "return"]
         /\ UNCHANGED active_connections
    ELSE IF b.user_id \notin DOMAIN active_connections
    THEN /\ broadcast' = [b EXCEPT !.pc = "idle", !.outcome = "KeyError"]
         /\ UNCHANGED active_connections
    ELSE /\ active_connections' =
               WithSet(b.user_id, active_connections[b.user_id] \ b.disconnected)
         /\ broadcast' =
               [b EXCEPT !.pc = "idle", !.outcome = "return",
                         !.removed = active_connections[b.user_id] \cap b.disconnected]

\* Line 38, the for statement asks the set iterator for the next
\* connection; b is the coroutine and sockets the set iterated over.  A set
\* that changed its size makes the iterator raise RuntimeError, outside the
\* try of line 39.  After a change that kept the size the iterator may pass
\* over connections it has not visited.
NextConnection(b, sockets) ==
    IF Cardinality(sockets) # b.used
    THEN /\ broadcast' =
              [b EXCEPT !.pc = "idle", !.outcome = "RuntimeError",
                        !.stale = IF b.user_id \in DOMAIN active_connections
                                  THEN b.disconnected
                                           \cap active_connections[b.user_id]
                                  ELSE {}]
         /\ UNCHANGED active_connections
    ELSE \/ \E c \in sockets \ b.visited :
               /\ broadcast' = [b EXCEPT !.pc = "send", !.connection = c,
                                         !.visited = @ \cup {c}]
               /\ UNCHANGED active_connections
         \/ /\ sockets \ b.visited = {} \/ b.changed
            /\ CleanUp(b)

\* broadcast_to_user is called and runs to its first await.
broadcast_to_user(user_id) ==
    /\ broadcast.pc = "idle"
    /\ IF user_id \notin DOMAIN active_connections
       THEN /\ broadcast' = [NoBroadcast EXCEPT !.user_id = user_id,
                                                !.outcome = "return"]
            /\ UNCHANGED active_connections
       ELSE NextConnection(
                [NoBroadcast EXCEPT !.user_id = user_id,
                                    !.used = Cardinality(active_connections[user_id]),
                                    !.whole = active_connections[user_id]],
                active_connections[user_id])

\* await connection.send_json(message) ends, with an exception when ok is
\* false (lines 41-43), and the loop goes on to its next await or its end.
SendEnds(ok) ==
    /\ broadcast.pc = "send"
    /\ NextConnection(
          IF ok THEN broadcast
          ELSE [broadcast EXCEPT !.disconnected = @ \cup {broadcast.connection}],
          Iterated)

\* ===================================================================
\* create_study_session (src/app/routers/study_sessions.py)
\* ===================================================================

\* Largest number of questions in a request.
MaxQuestions == 3

\* An Optional[float]: None, or the fraction num / den in lowest terms with
\* den > 0.
NoScore == [none |-> TRUE, num |-> 0, den |-> 1]

RECURSIVE GCD(_, _)
GCD(a, b) == IF b = 0 THEN a ELSE GCD(b, a % b)

Abs(a) == IF a < 0 THEN 0 - a ELSE a

\* a / b for b > 0.
Fraction(a, b) ==
    LET g == GCD(Abs(a), b)
    IN  [none |-> FALSE, num |-> a \div g, den |-> b \div g]

\* bool(x) of Python: None and 0.0 are false.
Truthy(x) == ~x.none /\ x.num # 0

\* The scores a client sends: none, 0, 50, 100.
ClientScores == {NoScore, Fraction(0, 1), Fraction(50, 1), Fraction(100, 1)}

\* Line 100: score or session.score
StoredScore(score, client_score) ==
    IF Truthy(score) THEN score ELSE client_score

\* Lines 88-101: the score of the row that is stored.
create_study_session(body, found) ==
    LET score == IF body.questions_attempted > 0
                 THEN Fraction(body.questions_correct * 100,
                               body.questions_attempted)
                 ELSE NoScore
    IN  IF ~found
        THEN HTTPException(404, "Lecture not found")
        ELSE Returned([questions_attempted |-> body.questions_attempted,
                       questions_correct |-> body.questions_correct,
                       score |-> StoredScore(score, body.score)])

\* No request has been made.
StudyIdle ==
    /\ session = [questions_attempted |-> 0, questions_correct |-> 0,
                  score |-> NoScore]
    /\ lecture_found = FALSE
    /\ study_outcome = NotCalled

\* The request; the body's numbers are not validated.
StudyInit ==
    /\ session \in [questions_attempted : 0 .. MaxQuestions,
                    questions_correct : -1 .. MaxQuestions,
                    score : ClientScores]
    /\ lecture_found \in BOOLEAN
    /\ study_outcome = NotCalled

\* The request is served.
CreateStudySession ==
    /\ study_outcome.kind = "none"
    /\ study_outcome' = create_study_session(session, lecture_found)
    /\ UNCHANGED <<session, lecture_found>>

\* ---------------------------------------------------------------- Init
\* The task pipeline after the import of app.utils.tasks.
TaskInit ==
    /\ tasks_tracking = <<>>
    /\ work_queue = <<>>
    /\ workers = EmptyBag
    /\ now = 0
    /\ submitted = [t \in TaskIds |-> 0]
    /\ calls = [t \in TaskIds |-> 0]
    /\ outcomes = [t \in TaskIds |-> {}]

\* No update_task_progress call has been watched.
UpdateIdle == update_outcome = NotCalled

\* Nothing but the task pipeline is in use.
OthersIdle == SearchIdle /\ ChunkIdle /\ SimIdle /\ ModelIdle /\ SemanticIdle
        /\ UpdateIdle
        /\ WsIdle
        /\ StudyIdle

Init == TaskInit /\ OthersIdle

\* ------------------------------------------------------------- actions
\* TaskManager.submit_task: the record is (re)created unconditionally and
\* the work is handed to the executor, which never refuses it.
submit_task(task_id, task_func) ==
    /\ tasks_tracking' = SetItem(task_id, NewRecord(now, now))
    /\ work_queue' = Append(work_queue, [task_id |-> task_id, task_func |-> task_func])
    /\ submitted' = [submitted EXCEPT ![task_id] = @ + 1]
    /\ UNCHANGED <<workers, now, calls, outcomes, others>>

\* The oldest work item enters _execute_task on a pool thread: status =
\* "running" (line 76), then the call of task_func (line 79).
Dispatch ==
    /\ work_queue # <<>>
    /\ LET item == Head(work_queue) IN
          /\ tasks_tracking' = SetStatus(item.task_id, "running")
          /\ workers' = workers (+) SetToBag({Exec(item.task_id, item.task_func, "L79")})
          /\ calls' = [calls EXCEPT ![item.task_id] = @ + 1]
    /\ work_queue' = Tail(work_queue)
    /\ UNCHANGED <<now, submitted, outcomes, others>>

\* Mutant of StartTask: a thread is started for every work item, whatever
\* the number of threads already running.
StartTask_NoLimit == Dispatch

\* The executor starts the oldest queued work item as soon as one of its
\* max_workers threads is free.
StartTask ==
    /\ BagCardinality(workers) < max_workers
    /\ Dispatch

\* task_func returns (line 79) and the record is marked complete (line 82).
TaskReturns(e) ==
    /\ e.pc = "L79"
    /\ e.task_func.kind = "return"
    /\ tasks_tracking' = SetStatus(e.task_id, "completed")
    /\ workers' = Goto(e, "L83")
    /\ UNCHANGED <<work_queue, now, submitted, calls, outcomes, others>>

\* Line 83: tasks_tracking[task_id]["result"] = result
StoreResult(e) ==
    /\ e.pc = "L83"
    /\ tasks_tracking' = SetResult(e.task_id, e.task_func.val)
    /\ workers' = Goto(e, "L84")
    /\ UNCHANGED <<work_queue, now, submitted, calls, outcomes, others>>

\* Line 84: tasks_tracking[task_id]["progress"] = 100, and the call returns.
FinishCompleted(e) ==
    /\ e.pc = "L84"
    /\ tasks_tracking' = SetProgress(e.task_id, 100)
    /\ workers' = Leave(e)
    /\ outcomes' = Ended(e)
    /\ UNCHANGED <<work_queue, now, submitted, calls, others>>

\* task_func raises an Exception (line 79), caught at line 87; line 89 marks
\* the record failed.
TaskRaises(e) ==
    /\ e.pc = "L79"
    /\ e.task_func.kind = "raise"
    /\ tasks_tracking' = SetStatus(e.task_id, "failed")
    /\ workers' = Goto(e, "L90")
    /\ UNCHANGED <<work_queue, now, submitted, calls, outcomes, others>>

\* Line 90: tasks_tracking[task_id]["error"] = str(e)
StoreError(e) ==
    /\ e.pc = "L90"
    /\ tasks_tracking' = SetError(e.task_id, e.task_func.val)
    /\ workers' = Goto(e, "L91")
    /\ UNCHANGED <<work_queue, now, submitted, calls, outcomes, others>>

\* Line 91: tasks_tracking[task_id]["progress"] = 0, and the call returns.
FinishFailed(e) ==
    /\ e.pc = "L91"
    /\ tasks_tracking' = SetProgress(e.task_id, 0)
    /\ workers' = Leave(e)
    /\ outcomes' = Ended(e)
    /\ UNCHANGED <<work_queue, now, submitted, calls, others>>

\* task_func raises a BaseException that is no Exception: "except Exception"
\* (line 87) does not catch it, _execute_task is left with the record as it
\* is, and the executor stores the exception in the future nobody reads.
TaskRaisesBase(e) ==
    /\ e.pc = "L79"
    /\ e.task_func.kind = "base"
    /\ workers' = Leave(e)
    /\ outcomes' = Ended(e)
    /\ UNCHANGED <<tasks_tracking, work_queue, now, submitted, calls, others>>

\* Lines 101-103: the table after update_task_progress(task_id, progress).
Updated(task_id, progress) ==
    IF task_id \in DOMAIN tasks_tracking
    THEN [tasks_tracking EXCEPT ![task_id].progress = Clamp(progress),
                                ![task_id].updated_at = now]
    ELSE tasks_tracking

\* TaskManager.update_task_progress: a no-op for an unknown id.
update_task_progress(task_id, progress) ==
    /\ tasks_tracking' = Updated(task_id, progress)
    /\ UNCHANGED <<work_queue, workers, now, submitted, calls, outcomes, others>>

\* update_task_progress as its caller sees it: the function has no raise
\* and no return statement, it returns None whatever the id.
CallUpdateTaskProgress(task_id, progress) ==
    /\ tasks_tracking' = Updated(task_id, progress)
    /\ update_outcome' = Returned(None)
    /\ UNCHANGED <<work_queue, workers, now, submitted, calls, outcomes>>
    /\ UNCHANGED <<searchVars, chunkVars, simVars, modelVars, semanticVars,
                   wsVars,
                   studyVars>>

\* TaskManager.get_task_status: tasks_tracking.get(task_id), the record itself
\* or None; it reads the table in whatever state the writers left it.
get_task_status(task_id) ==
    IF task_id \in DOMAIN tasks_tracking THEN tasks_tracking[task_id] ELSE None

\* Time passes between two readings of datetime.utcnow().
Tick ==
    /\ now < MaxTime
    /\ now' = now + 1
    /\ UNCHANGED <<tasks_tracking, work_queue, workers, submitted, calls, outcomes, others>>

\* One step of the pool thread running the call e of _execute_task.
Step(e) ==
    \/ TaskReturns(e)
    \/ StoreResult(e)
    \/ FinishCompleted(e)
    \/ TaskRaises(e)
    \/ StoreError(e)
    \/ FinishFailed(e)
    \/ TaskRaisesBase(e)

\* One step of some pool thread inside _execute_task.
ExecuteStep == \E e \in Running : Step(e)

\* ------------------------------------------------------------ ingestion
\* Uploaded files: the extension of the client's file name, which ends
\* file_path, and whether the text of the file can be extracted.  ".ppt" is
\* accepted by upload_lecture and unknown to OCRTask.process_file.
Files == [ext : {".pdf", ".ppt", ".png"}, readable : BOOLEAN]

\* OCRTask.process_file: ValueError for an extension it does not know, the
\* extractor's exception for a file it cannot read, both raised again at
\* line 143.
process_file(file) ==
    IF file.ext \notin {".pdf", ".pptx", ".png", ".jpg", ".jpeg"}
    THEN Raised("Unsupported file type")
    ELSE IF ~file.readable
         THEN Raised("extraction failed")
         ELSE Returned("extracted_text")

\* upload_lecture.process_lecture, the work function of the ingestion task:
\* every Exception is caught at line 140 and turned into the return value
\* {"status": "error", ...}; db_ok says whether lines 130-134 succeed.
process_lecture(file, db_ok) ==
    [kind |-> "return",
     val |-> IF process_file(file).kind = "raise" \/ ~db_ok
             THEN "status: error" ELSE "status: success",
     file |-> file]

\* upload_lecture: the ingestion of the stored file is submitted under a
\* task id made with uuid4, one no record has.
upload_lecture(file, db_ok) ==
    \E task_id \in TaskIds \ DOMAIN tasks_tracking :
        submit_task(task_id, process_lecture(file, db_ok))

\* ------------------------------------------------------ specifications
Next ==
    \/ \E task_id \in TaskIds, task_func \in Funcs :
          TotalSubmitted < MaxSubmits /\ submit_task(task_id, task_func)
    \/ StartTask
    \/ ExecuteStep
    \/ \E task_id \in TaskIds, progress \in ProgressArgs :
          update_task_progress(task_id, progress)

Spec == Init /\ [][Next]_vars

\* The pool under load: enough submissions to occupy every worker.
NextPool ==
    \/ \E task_id \in TaskIds :
          TotalSubmitted < MaxPoolSubmits /\ submit_task(task_id, PoolWork[task_id])
    \/ StartTask
    \/ ExecuteStep

SpecPool == Init /\ [][NextPool]_vars

\* The task table with the clock running: the timestamps of the records
\* differ.
NextClock == Next \/ Tick

SpecClock == Init /\ [][NextClock]_vars

\* The pool under fair scheduling.  A work function returns, raises, or
\* blocks on its collaborator for good: a blocked call stays at line 79.
LiveFuncs ==
    {[kind |-> "return", val |-> "x"],
     [kind |-> "raise", val |-> "boom"],
     [kind |-> "base", val |-> None],
     [kind |-> "block", val |-> None]}

NextLive ==
    \/ \E task_id \in TaskIds, task_func \in LiveFuncs :
          TotalSubmitted < MaxLiveSubmits /\ submit_task(task_id, task_func)
    \/ StartTask
    \/ ExecuteStep

\* The executor starts queued work whenever a thread is free, and every
\* thread keeps running its call.
SpecLive ==
    /\ Init
    /\ [][NextLive]_vars
    /\ WF_vars(StartTask)
    /\ WF_vars(ExecuteStep)

\* The connection manager under connects, disconnects and broadcasts.
notWsVars ==
    <<taskVars, searchVars, chunkVars, simVars, modelVars, semanticVars,
      updateVars,
          studyVars>>

NextWs ==
    \/ \E user_id \in Users, websocket \in Sockets :
          connect(user_id, websocket) /\ UNCHANGED notWsVars
    \/ \E user_id \in Users, websocket \in Sockets :
          disconnect(user_id, websocket) /\ UNCHANGED notWsVars
    \/ \E user_id \in Users : broadcast_to_user(user_id) /\ UNCHANGED notWsVars
    \/ \E ok \in BOOLEAN : SendEnds(ok) /\ UNCHANGED notWsVars

SpecWs == Init /\ [][NextWs]_vars

\* One request to create a study session, for every body.
InitStudy ==
    TaskInit /\ SearchIdle /\ ChunkIdle /\ SimIdle /\ ModelIdle /\ SemanticIdle
        /\ UpdateIdle
        /\ WsIdle
        /\ StudyInit

NextStudy ==
    CreateStudySession /\
    UNCHANGED <<taskVars, searchVars, chunkVars, simVars, modelVars,
                semanticVars, updateVars, wsVars>>

SpecStudy == InitStudy /\ [][NextStudy]_vars

\* Uploads of lectures and the ingestion tasks they start.
NextIngest ==
    \/ \E file \in Files, db_ok \in BOOLEAN : upload_lecture(file, db_ok)
    \/ StartTask
    \/ ExecuteStep
    \/ \E task_id \in TaskIds, progress \in ProgressArgs :
          update_task_progress(task_id, progress)

SpecIngest == Init /\ [][NextIngest]_vars

\* The task table with the callers of update_task_progress watched.
NextUpdate ==
    \/ \E task_id \in TaskIds, task_func \in Funcs :
          TotalSubmitted < MaxSubmits /\ submit_task(task_id, task_func)
    \/ StartTask
    \/ ExecuteStep
    \/ \E task_id \in TaskIds, progress \in ProgressArgs :
          CallUpdateTaskProgress(task_id, progress)

SpecUpdate == Init /\ [][NextUpdate]_vars

\* The ranking functions applied to every corpus, query and top_k.
InitSearch ==
    TaskInit /\ SearchInit /\ ChunkIdle /\ SimIdle /\ ModelIdle /\ SemanticIdle
        /\ UpdateIdle
        /\ WsIdle
        /\ StudyIdle

\* Everything the ranking functions leave alone.
notSearchVars == <<taskVars, chunkVars, simVars, modelVars, semanticVars,
          updateVars,
          wsVars,
          studyVars>>

NextSearch ==
    \/ CallSearch /\ UNCHANGED notSearchVars
    \/ CallBatchSearch /\ UNCHANGED notSearchVars

\* chunk_text applied to every text, chunk_size and overlap.
InitChunk ==
    TaskInit /\ SearchIdle /\ ChunkInit /\ SimIdle /\ ModelIdle /\ SemanticIdle
        /\ UpdateIdle
        /\ WsIdle
        /\ StudyIdle

NextChunk ==
    CallChunkText /\
    UNCHANGED <<taskVars, searchVars, simVars, modelVars, semanticVars,
          updateVars,
          wsVars,
          studyVars>>

SpecChunk == InitChunk /\ [][NextChunk]_vars

\* Both cosine similarities applied to every pair of vectors.
InitSim ==
    TaskInit /\ SearchIdle /\ ChunkIdle /\ SimInit /\ ModelIdle /\ SemanticIdle
        /\ UpdateIdle
        /\ WsIdle
        /\ StudyIdle

\* Everything the similarities leave alone.
notSimVars == <<taskVars, searchVars, chunkVars, modelVars, semanticVars,
          updateVars,
          wsVars,
          studyVars>>

NextSim ==
    \/ CallCosineSimilarity /\ UNCHANGED notSimVars
    \/ CallSimilarity /\ UNCHANGED notSimVars

SpecSim == InitSim /\ [][NextSim]_vars

\* Threads calling the embedding functions concurrently.
InitModel ==
    TaskInit /\ SearchIdle /\ ChunkIdle /\ SimIdle /\ ModelInit /\ SemanticIdle
        /\ UpdateIdle
        /\ WsIdle
        /\ StudyIdle

\* Everything the users of the embedding model leave alone.
notModelVars == <<taskVars, searchVars, chunkVars, simVars, semanticVars,
          updateVars,
          wsVars,
          studyVars>>

NextModel ==
    \/ \E t \in Threads, op \in ModuleOps \cup ManagerOps :
           CallOp(t, op) /\ UNCHANGED notModelVars
    \/ \E t \in Threads : TestModel(t) /\ UNCHANGED notModelVars
    \/ \E t \in Threads : LoadModel(t) /\ UNCHANGED notModelVars
    \/ \E t \in Threads : ReturnModel(t) /\ UNCHANGED notModelVars
    \/ \E t \in Threads : EmbedWithGlobal(t) /\ UNCHANGED notModelVars
    \/ \E t \in Threads : NewManager(t) /\ UNCHANGED notModelVars
    \/ \E t \in Threads : EmbedWithManager(t) /\ UNCHANGED notModelVars

SpecModel == InitModel /\ [][NextModel]_vars

\* One semantic search request over every table of lectures.
InitSemantic ==
    TaskInit /\ SearchIdle /\ ChunkIdle /\ SimIdle /\ ModelIdle /\ SemanticInit
        /\ UpdateIdle
        /\ WsIdle
        /\ StudyIdle

NextSemantic ==
    \E available \in BOOLEAN :
        SemanticSearch(available)
            /\ UNCHANGED <<taskVars, searchVars, chunkVars, simVars, modelVars,
          updateVars,
          wsVars,
          studyVars>>

SpecSemantic == InitSemantic /\ [][NextSemantic]_vars

SpecSearch == InitSearch /\ [][NextSearch]_vars

\* ------------------------------------------------- vocabulary of the claims
Known == DOMAIN tasks_tracking

\* Work items of task_id waiting in the executor's queue.
Queued(task_id) == {i \in DOMAIN work_queue : work_queue[i].task_id = task_id}

\* _execute_task calls of task_id that are on a pool thread.
InFlight(task_id) == {e \in Running : e.task_id = task_id}

\* Every work submitted under task_id has been executed to its end.
Settled(task_id) ==
    /\ submitted[task_id] > 0
    /\ Queued(task_id) = {}
    /\ InFlight(task_id) = {}

Terminal == {"completed", "failed"}

\* ---------------------------------------------------------------- C1
\* C1: once a record's status is completed or failed it never changes
\* again, whatever submit_task, _execute_task and update_task_progress do
\* afterwards (a second submit_task with the same id included).
C1_TerminalStatusIsFinal ==
    [][\A t \in Known :
          tasks_tracking[t].status \in Terminal
              => tasks_tracking'[t].status = tasks_tracking[t].status]_vars

\* ---------------------------------------------------------------- C2
\* C2: a submit_task call whose id is already in the registry is rejected
\* and leaves the existing record (and the executor's queue) unchanged, so
\* the work function runs at most once per task id.
C2_DuplicateSubmitRejected ==
    /\ [][\A t \in Known :
             submitted'[t] # submitted[t]
                 => /\ tasks_tracking'[t] = tasks_tracking[t]
                    /\ work_queue' = work_queue]_vars
    /\ [](\A t \in TaskIds : calls[t] <= 1)

\* ---------------------------------------------------------------- C3
\* C3: whenever the work submitted under a task id raises an exception, the
\* id's record ends with status failed and a non-empty error message (stated
\* for an id submitted once, whose only work raised an Exception and ended).
C3_RaisedWorkEndsFailedWithMessage ==
    \A t \in TaskIds :
        (Settled(t) /\ submitted[t] = 1
            /\ \E f \in outcomes[t] : f.kind = "raise")
        => /\ tasks_tracking[t].status = "failed"
           /\ tasks_tracking[t].error # None
           /\ tasks_tracking[t].error # ""

\* ---------------------------------------------------------------- C4
\* C4: a failure raised by the work of one task id changes the record of no
\* other task id and does not stop the pool: every step of a pool thread
\* writes only the record of the id it executes; an id t3 submitted once
\* whose work returned v ends completed with result v and error None
\* whatever the works of other ids raised; a thread whose work failed is
\* free again, and a queued work item is started whenever a thread is free.
C4_FailureIsContained ==
    /\ [][\A e \in Running :
             Step(e) => \A b \in Known \ {e.task_id} :
                            tasks_tracking'[b] = tasks_tracking[b]]_vars
    /\ [](\A t \in TaskIds :
             (Settled(t) /\ submitted[t] = 1
                 /\ \E f \in outcomes[t] : f.kind = "return")
             => \E f \in outcomes[t] :
                   /\ tasks_tracking[t].status = "completed"
                   /\ tasks_tracking[t].result = f.val
                   /\ tasks_tracking[t].error = None)
    /\ [][\A e \in Running :
             (FinishFailed(e) \/ TaskRaisesBase(e))
                 => BagCardinality(workers') = BagCardinality(workers) - 1]_vars
    /\ []((work_queue # <<>> /\ BagCardinality(workers) < max_workers)
             => ENABLED StartTask)

\* Witness of C4: the work of t2 raised and t2 is recorded failed, while t3,
\* submitted once, returned "x" and is recorded completed with that result.
C4_Witness ==
    /\ Settled("t2") /\ Settled("t3")
    /\ submitted["t3"] = 1
    /\ [kind |-> "raise", val |-> "boom"] \in outcomes["t2"]
    /\ tasks_tracking["t2"].status = "failed"
    /\ tasks_tracking["t2"].error = "boom"
    /\ outcomes["t3"] = {[kind |-> "return", val |-> "x"]}
    /\ tasks_tracking["t3"].status = "completed"
    /\ tasks_tracking["t3"].result = "x"
    /\ tasks_tracking["t3"].error = None

\* ---------------------------------------------------------------- C5
\* C5: when the work submitted under a task id returns normally with value
\* v, the id's record ends with status completed, result v and error None,
\* and get_task_status returns that record.
C5_ReturnedWorkEndsCompleted ==
    \A t \in TaskIds :
        (Settled(t) /\ \E f \in outcomes[t] : f.kind = "return")
        => \E f \in outcomes[t] :
              /\ f.kind = "return"
              /\ get_task_status(t).status = "completed"
              /\ get_task_status(t).result = f.val
              /\ get_task_status(t).error = None

\* ---------------------------------------------------------------- C6
\* C6: get_task_status, called at any point, never returns a half-updated
\* record: not status completed with the result unset or the progress not
\* yet 100, and not status failed with the error unset.
C6_NoHalfUpdatedRecord ==
    \A t \in Known :
        LET r == get_task_status(t) IN
            /\ r.status = "completed" => (r.result # None /\ r.progress = 100)
            /\ r.status = "failed" => r.error # None

\* ---------------------------------------------------------------- C7
\* C7: in every reachable state, every record has at most one of result and
\* error set.
C7_ResultOrErrorNotBoth ==
    \A t \in Known :
        tasks_tracking[t].result = None \/ tasks_tracking[t].error = None

\* ---------------------------------------------------------------- C8
\* C8: at most max_workers (5) calls of _execute_task run at any moment; a
\* work item submitted while every thread is busy is neither rejected nor
\* dropped: every submission is in the queue or has been started, and while
\* it waits in the queue the record of an id submitted once stays pending.
C8_BoundedPoolQueuesExcess ==
    /\ BagCardinality(workers) <= max_workers
    /\ \A t \in TaskIds : submitted[t] = Cardinality(Queued(t)) + calls[t]
    /\ \A t \in TaskIds :
          (submitted[t] = 1 /\ Queued(t) # {})
              => (t \in Known /\ tasks_tracking[t].status = "pending")

\* Witness of C8: five works are inside task_func and a sixth submission,
\* of an id submitted once, waits in the queue with its record pending.
C8_Witness ==
    /\ BagCardinality(workers) = max_workers
    /\ \A e \in Running : e.pc = "L79"
    /\ work_queue # <<>>
    /\ submitted[Head(work_queue).task_id] = 1
    /\ tasks_tracking[Head(work_queue).task_id].status = "pending"

\* ---------------------------------------------------------------- C9
\* C9: once a task is failed with its error message recorded,
\* get_task_status returns status failed and the same message in every later
\* state: the record is never removed, replaced or reset.
C9_FailedIsQueryableForever ==
    [][\A t \in Known :
          (get_task_status(t).status = "failed" /\ get_task_status(t).error # None)
              => /\ t \in Known'
                 /\ get_task_status(t)'.status = "failed"
                 /\ get_task_status(t)'.error = get_task_status(t).error]_vars

\* --------------------------------------------------------------- C10
\* C10: the status history of a task id is pending, running, then completed
\* or failed: a record is created pending and every later change of its
\* status is pending -> running, running -> completed or running -> failed.
C10_StatusHistoryInOrder ==
    [][\A t \in Known' :
          IF t \notin Known
          THEN tasks_tracking'[t].status = "pending"
          ELSE \/ tasks_tracking'[t].status = tasks_tracking[t].status
               \/ <<tasks_tracking[t].status, tasks_tracking'[t].status>>
                     \in {<<"pending", "running">>,
                          <<"running", "completed">>,
                          <<"running", "failed">>}]_vars


\* ===================================================================
\* Ranking (C11 - C13)
\* ===================================================================

\* Both ranking functions have been applied to the inputs.
BothRanked == {"search", "batch_search"} \subseteq search_ran

\* seq is in non-increasing score order.
NonIncreasing(seq) ==
    \A i, j \in 1 .. Len(seq) : i < j => seq[i].score >= seq[j].score

\* Entries of equal score stand in the order of their places in the corpus.
TiesInCorpusOrder(seq) ==
    \A i, j \in 1 .. Len(seq) :
        (i < j /\ seq[i].score = seq[j].score) => seq[i].pos < seq[j].pos

\* C11: for every query, corpus, chunk_size >= 1 and top_k, batch_search
\* returns the same ordered list of (item, score) as search run once over
\* the whole corpus, equal-score items in the same order.
C11_BatchSearchEqualsSearch ==
    BothRanked => Tuples(batch_result) = Tuples(search_result)

\* Both functions ranked a corpus of several batches, the last one partial,
\* with two different documents of equal score, and cut the ranking short.
C11_Witness ==
    /\ BothRanked
    /\ chunk_size = 2
    /\ Len(documents) = 3
    /\ top_k = 2
    /\ Len(batch_result) = 2
    /\ batch_result[1].score = batch_result[2].score
    /\ batch_result[1].doc # batch_result[2].doc
    /\ batch_result[1].pos = 1
    /\ batch_result[2].pos = 3

\* C12: for every corpus and every top_k, search returns at most
\* min(top_k, len(corpus)) items (none for a negative top_k) in
\* non-increasing score order, and the whole corpus ranked when
\* top_k >= len(corpus).
C12_AtMostTopKRanked ==
    "search" \in search_ran =>
        /\ Len(search_result) <= Max(0, Min(top_k, Len(documents)))
        /\ NonIncreasing(search_result)
        /\ top_k >= Len(documents) =>
              {e.pos : e \in {search_result[i] : i \in 1 .. Len(search_result)}}
                  = 1 .. Len(documents)

\* C13: in the result of search and of batch_search, two corpus items of
\* equal score appear in the relative order they have in the corpus.
C13_StableTieBreak ==
    /\ "search" \in search_ran => TiesInCorpusOrder(search_result)
    /\ "batch_search" \in search_ran => TiesInCorpusOrder(batch_result)

\* Both results hold a tie between items of different batches, the earlier
\* of them encoded with the longer vector.
C13_Witness ==
    /\ BothRanked
    /\ chunk_size = 1
    /\ documents = <<<<"b">>, <<"a", " ", "b">>, <<"a">>>>
    /\ query_embedding = <<1, 0>>
    /\ top_k = 3
    /\ Tuples(search_result) =
          <<<<<<"b">>, 1>>, <<<<"a">>, 1>>, <<<<"a", " ", "b">>, 0>>>>
    /\ Tuples(batch_result) =
          <<<<<<"b">>, 1>>, <<<<"a">>, 1>>, <<<<"a", " ", "b">>, 0>>>>


\* ===================================================================
\* Chunking (C14, C15)
\* ===================================================================

\* chunk_text has ended.
ChunkCalled == chunk_outcome.kind # "none"

\* chunk is made of the words ws with exactly one blank between neighbours
\* and none at either end.
JoinedBySingleSpaces(chunk, ws) ==
    /\ Split(chunk) = ws
    /\ chunk # <<>> => chunk[1] # " " /\ chunk[Len(chunk)] # " "
    /\ \A i \in 1 .. Len(chunk) - 1 : ~(chunk[i] = " " /\ chunk[i + 1] = " ")

\* C14: for 1 <= chunk_size and overlap < chunk_size, chunk_text returns the
\* windows w[i .. min(i + chunk_size, n)) of the n words w of the text for
\* i = 0, s, 2s, ... < n with s = chunk_size - overlap, each joined by single
\* spaces, the final partial window included.
C14_ChunksAreTheWindows ==
    (ChunkCalled /\ ct_chunk_size >= 1 /\ overlap < ct_chunk_size) =>
        LET w == Split(text)
            n == Len(w)
            s == ct_chunk_size - overlap
            first == {i \in 0 .. n - 1 : i % s = 0}
        IN  /\ chunk_outcome.kind = "return"
            /\ Len(chunk_outcome.val) = Cardinality(first)
            /\ \A k \in 1 .. Len(chunk_outcome.val) :
                   LET i == (k - 1) * s
                   IN  /\ i \in first
                       /\ JoinedBySingleSpaces(chunk_outcome.val[k],
                              SubSeq(w, i + 1, Min(i + ct_chunk_size, n)))

\* Four words in windows of two with one word shared: the last window holds
\* the last word alone.
C14_Witness ==
    /\ text = <<"a", " ", "b", " ", "a", " ", "b">>
    /\ ct_chunk_size = 2
    /\ overlap = 1
    /\ chunk_outcome.kind = "return"
    /\ chunk_outcome.val =
          << <<"a", " ", "b">>, <<"b", " ", "a">>, <<"a", " ", "b">>, <<"b">> >>

\* C15: chunk_text fails whenever overlap >= chunk_size or chunk_size <= 0,
\* so that the window start always advances.
C15_BadWindowRejected ==
    (ChunkCalled /\ (overlap >= ct_chunk_size \/ ct_chunk_size <= 0)) =>
        chunk_outcome.kind = "raise"


\* ===================================================================
\* Cosine similarity (C16)
\* ===================================================================

\* One of the two vectors compared has norm 0.
ZeroNorm == Norm(sim_vec1) = 0 \/ Norm(sim_vec2) = 0

\* C16: whenever either vector has norm 0, both cosine_similarity and
\* similarity return exactly 0.0, as a normal value and not as NaN.
C16_ZeroNormGivesZero ==
    ZeroNorm =>
        /\ cosine_outcome.kind # "none" => cosine_outcome = Returned(Float(0))
        /\ sim_outcome.kind # "none" => sim_outcome = Returned(Float(0))


\* ===================================================================
\* The embedding model (C17, C18)
\* ===================================================================

\* C17: the embedding model is loaded at most once per process, for any
\* number of threads making their first call concurrently and any number of
\* search requests, and every caller of get_embeddings_model gets the one
\* loaded handle.
C17_ModelLoadedAtMostOnce ==
    /\ loads <= 1
    /\ \A t \in Threads :
          (callers[t].op = "get_embeddings_model"
              /\ callers[t].outcome.kind = "return"
              /\ loadable) => callers[t].outcome.val = 1

\* C18: when the embedding model cannot be loaded, every embed_text and
\* embed_texts call fails; none returns a value.
C18_UnloadableModelFailsTheCall ==
    ~loadable =>
        \A t \in Threads :
            (callers[t].op # "get_embeddings_model"
                /\ callers[t].outcome.kind # "none")
              => callers[t].outcome.kind = "raise"


\* ===================================================================
\* Semantic search (C19, C20)
\* ===================================================================

\* The request has been served.
Served == response.kind # "none"

\* No lecture has extractable text.
NoExtractableText ==
    \A i \in 1 .. Len(lectures) : lectures[i].extracted_text = <<>>

\* Some lecture has text, but chunking yields nothing.
NoChunks == ~NoExtractableText /\ ChunkMetadata(lectures) = <<>>

\* The same lectures without their texts.
WithoutText == Rows([i \in 1 .. Len(lectures) |-> <<>>])

\* C19: semantic search fails when no lecture has extractable text, and
\* with a different error when the lectures have text but chunking yields
\* nothing; in both cases the similarity engine is not invoked and no result
\* list is returned.
C19_EmptyCorpusAndNoChunksAreDistinct ==
    Served =>
        /\ (NoExtractableText \/ NoChunks) =>
              (response.kind = "raise" /\ ~engine_called)
        /\ NoChunks =>
              response.val #
                  semantic_search(WithoutText, request_query, request_top_k,
                                  TRUE).response.val

\* C20: every result carries the id of the lecture whose chunk at that place
\* of the corpus was ranked, also when two lectures hold chunks of the same
\* text, and there are as many results as ranked items.
C20_ResultNamesItsLecture ==
    (Served /\ response.kind = "return") =>
        /\ Len(response.val.results) = Len(ranked)
        /\ response.val.total_results = Len(ranked)
        /\ \A i \in 1 .. Len(ranked) :
              /\ response.val.results[i].content = ranked[i].doc
              /\ response.val.results[i].lecture_id =
                    ChunkMetadata(lectures)[ranked[i].pos].lecture_id


\* ===================================================================
\* Ingestion (C21)
\* ===================================================================

\* The extraction of the text of file fails.
ExtractionFails(file) == process_file(file).kind = "raise"

\* C21: if text extraction fails inside the ingestion work of an uploaded
\* lecture, the task's record ends with status failed and the failure
\* message in error, never with status completed.
C21_FailedIngestionEndsFailed ==
    \A t \in Known :
        (Settled(t) /\ \E w \in outcomes[t] : ExtractionFails(w.file)) =>
            /\ tasks_tracking[t].status = "failed"
            /\ tasks_tracking[t].error # None


\* ===================================================================
\* The task table, continued (C22 - C26)
\* ===================================================================

\* C22: an update addressed to a task id that is not in the registry fails
\* with an error and leaves the registry unchanged: no record is created.
C22_UnknownTaskUpdateFails ==
    [][\A task_id \in TaskIds, progress \in ProgressArgs :
          (task_id \notin Known /\ CallUpdateTaskProgress(task_id, progress)) =>
              /\ update_outcome'.kind = "raise"
              /\ tasks_tracking' = tasks_tracking]_vars


\* C24: in every reachable state every record's progress is an integer in
\* [0, 100], whatever the arguments of update_task_progress.
C24_ProgressInRange ==
    \A t \in Known : tasks_tracking[t].progress \in 0 .. 100

\* An update with an argument above 100 has been stored, cut to 100, on a
\* record no worker has finished, and one below 0, cut to 0, on a completed
\* record.
C24_Witness ==
    /\ tasks_tracking # <<>>
    /\ \E t \in Known :
          /\ tasks_tracking[t].status \in {"pending", "running"}
          /\ tasks_tracking[t].progress = 100
    /\ \E t \in Known :
          /\ tasks_tracking[t].status = "completed"
          /\ Settled(t)
          /\ tasks_tracking[t].progress = 0

\* C25: in every reachable state a completed record has progress 100 and a
\* failed record has progress 0, whenever update_task_progress is called.
C25_TerminalProgress ==
    \A t \in Known :
        /\ tasks_tracking[t].status = "completed" =>
              tasks_tracking[t].progress = 100
        /\ tasks_tracking[t].status = "failed" =>
              tasks_tracking[t].progress = 0

\* A record is changed in status, result, error or progress.
Mutated(t) ==
    /\ t \in Known
    /\ t \in DOMAIN tasks_tracking'
    /\ \/ tasks_tracking'[t].status # tasks_tracking[t].status
       \/ tasks_tracking'[t].result # tasks_tracking[t].result
       \/ tasks_tracking'[t].error # tasks_tracking[t].error
       \/ tasks_tracking'[t].progress # tasks_tracking[t].progress

\* C26: updated_at is never earlier than created_at, never decreases, and
\* every change of a record's status, result, error or progress sets
\* updated_at to the time of the change.
C26_UpdatedAtFollowsMutations ==
    [][\A t \in DOMAIN tasks_tracking' :
          /\ tasks_tracking'[t].updated_at >= tasks_tracking'[t].created_at
          /\ t \in Known =>
                tasks_tracking'[t].updated_at >= tasks_tracking[t].updated_at
          /\ Mutated(t) => tasks_tracking'[t].updated_at = now]_vars


\* _execute_task calls, queued or on a thread, whose work function blocks.
Blocked ==
    {e \in Running : e.task_func.kind = "block"}

\* Work of task id t that blocks is queued or on a thread.
HeldByBlockingWork(t) ==
    \/ \E e \in InFlight(t) : e.task_func.kind = "block"
    \/ \E i \in Queued(t) : work_queue[i].task_func.kind = "block"

\* C23: under fair scheduling every submitted task whose work returns or
\* raises eventually reaches completed or failed, and while fewer than
\* max_workers units are blocked queued work is eventually started.
C23_EveryTaskEnds ==
    /\ \A t \in TaskIds :
          (t \in Known) ~>
              \/ (t \in Known /\ tasks_tracking[t].status \in Terminal)
              \/ HeldByBlockingWork(t)
    /\ (work_queue # <<>>) ~>
          (work_queue = <<>> \/ Cardinality(Blocked) >= max_workers)


\* ===================================================================
\* Chunk coverage (C27)
\* ===================================================================

\* ws without its first k elements.
DropFirst(ws, k) == SubSeq(ws, Min(k, Len(ws)) + 1, Len(ws))

\* The last k elements of ws.
LastOf(ws, k) == SubSeq(ws, Len(ws) - k + 1, Len(ws))

\* The words of the first chunk followed by the words of every later chunk
\* without its first k words.
RECURSIVE Stitched(_, _, _)
Stitched(chunks, k, first) ==
    IF chunks = <<>> THEN <<>>
    ELSE (IF first THEN Split(Head(chunks))
          ELSE DropFirst(Split(Head(chunks)), k))
             \o Stitched(Tail(chunks), k, FALSE)

\* C27: for 0 <= overlap < chunk_size the chunks cover the text without
\* gaps: the first chunk's words followed by the words of each later chunk
\* after its first overlap words are the words of the text, and consecutive
\* chunks share exactly overlap words when the later one has that many.
C27_ChunksCoverTheText ==
    (ChunkCalled /\ 0 <= overlap /\ overlap < ct_chunk_size) =>
        /\ chunk_outcome.kind = "return"
        /\ Stitched(chunk_outcome.val, overlap, TRUE) = Split(text)
        /\ \A k \in 2 .. Len(chunk_outcome.val) :
              LET earlier == Split(chunk_outcome.val[k - 1])
                  later == Split(chunk_outcome.val[k])
              IN  Len(later) >= overlap =>
                      SubSeq(later, 1, overlap) = LastOf(earlier, overlap)

\* Four words in windows of three that share two: the last two chunks are
\* no longer than the overlap and add nothing.
C27_Witness ==
    /\ text = <<"a", " ", "b", " ", "b", " ", "a">>
    /\ ct_chunk_size = 3
    /\ overlap = 2
    /\ chunk_outcome.kind = "return"
    /\ Len(chunk_outcome.val) = 4
    /\ chunk_outcome.val[2] = <<"b", " ", "b", " ", "a">>
    /\ chunk_outcome.val[4] = <<"a">>


\* ===================================================================
\* ConnectionManager (C28, C29)
\* ===================================================================

\* C28: in every reachable state every user id that is a key of
\* active_connections maps to a non-empty set of connections.
C28_NoEmptyEntry ==
    \A u \in DOMAIN active_connections : active_connections[u] # {}

\* C29: a broadcast interleaved with connect and disconnect for the same
\* user never fails, sends to every connection registered for its whole
\* duration, and removes the connections whose send failed and no other:
\* none of them is still registered when the call ends.
C29_BroadcastSafeUnderInterleaving ==
    (broadcast.pc = "idle" /\ broadcast.outcome # "none") =>
        /\ broadcast.outcome = "return"
        /\ broadcast.whole \subseteq broadcast.visited
        /\ broadcast.removed \subseteq broadcast.disconnected
        /\ broadcast.stale = {}


\* ===================================================================
\* Study sessions (C30)
\* ===================================================================

\* C30: for every study session created with questions_attempted > 0 the
\* stored score is questions_correct / questions_attempted * 100, 0 included,
\* whatever score the client supplied; the client's score is stored only
\* when questions_attempted = 0.
C30_ScoreIsComputed ==
    study_outcome.kind = "return" =>
        LET stored == study_outcome.val.score
        IN  IF session.questions_attempted > 0
            THEN /\ ~stored.none
                 /\ stored.num * session.questions_attempted
                        = session.questions_correct * 100 * stored.den
            ELSE stored = session.score

====
